---- MODULE Spec2Model ----
(***************************************************************************)
(* Model of src/app.py: the "ARC People & Projects Map Entry Generator".   *)
(*                                                                         *)
(* The script is a Streamlit page: every change of a widget reruns main()  *)
(* from top to bottom with the widgets' current values.  The state is the  *)
(* widgets' values plus what the last run of main() produced (the entry    *)
(* dictionary, the flags it computed, the messages it showed, and the call *)
(* it made to generate_random_coordinate).  probe is one call of           *)
(* generate_random_coordinate seen from inside, with its two random draws, *)
(* and hex_text a text given to HEX_COLOR_RE.                              *)
(*                                                                         *)
(* Text is a sequence of one-character strings, so that the regular        *)
(* expressions and startswith() are computed character by character.       *)
(*                                                                         *)
(* Angles.  A value in degrees is an integer number of 1e-5 degree.  A     *)
(* value in radians is an integer number of 1/R radian with R = 6371000    *)
(* (app.py line 77), that is, of metres of arc on the sphere: in that unit *)
(* ang = d / R (line 81) is numerically d, and one degree is               *)
(* pi * R / 180 = 111195 units, so math.radians multiplies by 22239/20000  *)
(* and math.degrees by 20000/22239, each rounded to the nearest unit.      *)
(***************************************************************************)
EXTENDS Integers, Sequences, FiniteSets, TLC

VARIABLES
    id_input, listing_type, title_input, link_input, address_input,
    zones_select, lat_input, lon_input, mask_radio, mask_radius, image_input,
    entry, valid_id, valid_link, valid_image, mandatory, shown, call,
    probe, hex_text, hex_ok

vars == << id_input, listing_type, title_input, link_input, address_input,
           zones_select, lat_input, lon_input, mask_radio, mask_radius,
           image_input, entry, valid_id, valid_link, valid_image, mandatory,
           shown, call, probe, hex_text, hex_ok >>

widgets == << id_input, listing_type, title_input, link_input, address_input,
              zones_select, lat_input, lon_input, mask_radio, mask_radius,
              image_input >>

formvars == << entry, valid_id, valid_link, valid_image, mandatory, shown,
               call >>

\* What the form leaves alone.
others == << probe, hex_text, hex_ok >>

-----------------------------------------------------------------------------
(* Characters and character classes of the regular expressions.            *)

Lower == {"a","b","c","d","e","f","g","h","i","j","k","l","m",
          "n","o","p","q","r","s","t","u","v","w","x","y","z"}

Upper == {"A","B","C","D","E","F","G","H","I","J","K","L","M",
          "N","O","P","Q","R","S","T","U","V","W","X","Y","Z"}

Digit == {"0","1","2","3","4","5","6","7","8","9"}

HexDigit == Digit \cup {"a","b","c","d","e","f"} \cup {"A","B","C","D","E","F"}

\* \s of Python's re for str patterns, restricted to ASCII.
Whitespace == {" ", "\t", "\n", "\r", "\f"}

IdChars == Lower \cup Digit \cup {"_", "-"}

Alpha == Lower \cup Upper

LabelChars == Lower \cup Upper \cup Digit \cup {"-", "."}

AllIn(s, class) == \A i \in 1..Len(s) : s[i] \in class

NoneIn(s, class) == \A i \in 1..Len(s) : s[i] \notin class

\* str.startswith
StartsWith(s, prefix) ==
    /\ Len(s) >= Len(prefix)
    /\ SubSeq(s, 1, Len(prefix)) = prefix

\* What "$" leaves to be matched by the pattern before it: without
\* re.MULTILINE, "$" matches at the end of the string and also just before a
\* newline that is the last character of the string.
DollarBodies(s) ==
    {s} \cup (IF Len(s) > 0 /\ s[Len(s)] = "\n"
              THEN {SubSeq(s, 1, Len(s) - 1)} ELSE {})

\* re.match(r'^[a-z0-9_-]+$', s)
IdMatch(s) ==
    \E b \in DollarBodies(s) :
        /\ Len(b) >= 1
        /\ AllIn(b, IdChars)

\* HEX_COLOR_RE.match(s), HEX_COLOR_RE = ^#(?:[0-9A-Fa-f]{3}){1,2}$
HexColorMatch(s) ==
    \E b \in DollarBodies(s) :
        /\ Len(b) \in {1 + 3, 1 + 3 + 3}
        /\ b[1] = "#"
        /\ AllIn(SubSeq(b, 2, Len(b)), HexDigit)

\* (https?://)
UrlScheme(t) ==
    \/ t = <<"h","t","t","p",":","/","/">>
    \/ t = <<"h","t","t","p","s",":","/","/">>

\* ([A-Za-z0-9-]+\.)+[A-Za-z]{2,6}
UrlDottedHost(t) ==
    \E m \in 1..Len(t) :
        LET labels == SubSeq(t, 1, m)
            tld    == SubSeq(t, m + 1, Len(t))
        IN  /\ t[m] = "."
            /\ Len(tld) \in 2..6
            /\ AllIn(tld, Alpha)
            /\ AllIn(labels, LabelChars)
            /\ labels[1] # "."
            /\ \A i \in 1..(m - 1) : ~(labels[i] = "." /\ labels[i + 1] = ".")

\* \d{1,3}
UrlOctet(t) == Len(t) \in 1..3 /\ AllIn(t, Digit)

\* \d{1,3}(?:\.\d{1,3}){3}
UrlIPv4(t) ==
    \E a, b, c \in 1..Len(t) :
        /\ a < b /\ b < c
        /\ t[a] = "." /\ t[b] = "." /\ t[c] = "."
        /\ UrlOctet(SubSeq(t, 1, a - 1))
        /\ UrlOctet(SubSeq(t, a + 1, b - 1))
        /\ UrlOctet(SubSeq(t, b + 1, c - 1))
        /\ UrlOctet(SubSeq(t, c + 1, Len(t)))

UrlHost(t) ==
    \/ UrlDottedHost(t)
    \/ t = <<"l","o","c","a","l","h","o","s","t">>
    \/ UrlIPv4(t)

\* (?::\d+)?
UrlPort(t) ==
    \/ t = <<>>
    \/ Len(t) >= 2 /\ t[1] = ":" /\ AllIn(SubSeq(t, 2, Len(t)), Digit)

\* (/\S*)?
UrlPath(t) ==
    \/ t = <<>>
    \/ Len(t) >= 1 /\ t[1] = "/" /\ NoneIn(SubSeq(t, 2, Len(t)), Whitespace)

\* is_valid_url(url) = bool(URL_RE.match(url))
is_valid_url(url) ==
    \E b \in DollarBodies(url) :
        \E i \in 0..Len(b) : \E j \in i..Len(b) : \E k \in j..Len(b) :
            /\ UrlScheme(SubSeq(b, 1, i))
            /\ UrlHost(SubSeq(b, i + 1, j))
            /\ UrlPort(SubSeq(b, j + 1, k))
            /\ UrlPath(SubSeq(b, k + 1, Len(b)))

-----------------------------------------------------------------------------
(* generate_random_coordinate.                                             *)

\* x * num / den rounded to the nearest integer, for x >= 0, computed in
\* two parts so that no intermediate product leaves the 32-bit integers.
ScaleNat(x, num, den) ==
    (x \div den) * num + (((x % den) * num) + (den \div 2)) \div den

Scale(x, num, den) ==
    IF x >= 0 THEN ScaleNat(x, num, den) ELSE 0 - ScaleNat(0 - x, num, den)

\* n degrees on the 1e-5 degree grid.
Deg(n) == n * 100000

\* math.radians: 1e-5 degree -> 1/R radian.
Radians(x) == Scale(x, 22239, 20000)

\* math.degrees: 1/R radian -> 1e-5 degree.
Degrees(y) == Scale(y, 20000, 22239)

\* pi / 2 and pi in units of 1/R radian.
QuarterTurn == Radians(Deg(90))

HalfTurn == Radians(Deg(180))

Sign(x) == IF x > 0 THEN 1 ELSE IF x < 0 THEN 0 - 1 ELSE 0

Abs(x) == IF x >= 0 THEN x ELSE 0 - x

\* math.asin(math.sin(z)) for |z| <= 3 pi / 2: the angle folded back into
\* [-pi/2, pi/2].
AsinSin(z) ==
    IF z > QuarterTurn THEN HalfTurn - z
    ELSE IF z < 0 - QuarterTurn THEN 0 - HalfTurn - z
    ELSE z

\* The sign of math.cos(z) for |z| <= 3 pi / 2; 0 stands for a value that
\* is zero up to rounding, whose computed sign is not determined.
CosSign(z) ==
    IF Abs(z) < QuarterTurn THEN 1
    ELSE IF Abs(z) = QuarterTurn THEN 0
    ELSE 0 - 1

\* Values of math.asin and math.atan2 where the model does not compute
\* them: some value of the function's range, [-pi/2, pi/2] and [-pi, pi].
AsinAny == {0 - QuarterTurn, 0, QuarterTurn}

Atan2Any == {0 - QuarterTurn, 0, HalfTurn}

\* math.atan2(y, x) for y zero up to rounding, from the signs of y and x.
Atan2Axis(sy, sx) ==
    IF sx > 0 THEN {0}
    ELSE IF sx < 0 THEN {IF sy < 0 THEN 0 - HalfTurn ELSE HalfTurn}
    ELSE Atan2Any

\* The bearing theta = k * pi / 2, k in 0..3 (north, east, south, west).
\* Lines 82-89: the set of pairs <<new_lat_rad, new_lon_rad>> the
\* projection can produce from lat_rad, lon_rad = math.radians(lon), ang and
\* theta.  Along a meridian (k = 0, 2) the argument of asin is
\* sin(lat_rad +- ang) and the second argument of atan2 is
\* cos(lat_rad) * cos(lat_rad +- ang), the first being zero up to rounding.
\* East and west (k = 1, 3) the argument of asin is sin(lat_rad) * cos(ang):
\* on the equator the result is 0 and atan2(+-sin(ang), cos(ang)) = +-ang;
\* at a pole the result is +-(pi/2 - ang) and both arguments of atan2 are
\* zero up to rounding; elsewhere the model does not compute the two values.
Projection(lat_rad, lon_rad, ang, k) ==
    IF k \in {0, 2} THEN
        LET z == IF k = 0 THEN lat_rad + ang ELSE lat_rad - ang
        IN  { <<AsinSin(z), lon_rad + dlon>> :
                dlon \in Atan2Axis(CosSign(lat_rad),
                                   CosSign(lat_rad) * CosSign(z)) }
    ELSE IF ang = 0 /\ CosSign(lat_rad) # 0 THEN
        { <<AsinSin(lat_rad), lon_rad>> }
    ELSE IF lat_rad = 0 THEN
        { <<0, lon_rad + (IF k = 1 THEN ang ELSE 0 - ang)>> }
    ELSE IF CosSign(lat_rad) = 0 THEN
        { <<Sign(lat_rad) * (QuarterTurn - ang), lon_rad + dlon>> :
                dlon \in Atan2Any }
    ELSE
        { <<a, lon_rad + dlon>> : a \in AsinAny, dlon \in Atan2Any }

\* Line 92: new_lat = max(min(new_lat, 90), -90)
ClampLat(new_lat) ==
    LET lo == IF new_lat < Deg(90) THEN new_lat ELSE Deg(90)
    IN  IF lo > Deg(0 - 90) THEN lo ELSE Deg(0 - 90)

\* Line 93 without the wrap: the projected longitude returned as it is.
WrapLonMissing(new_lon) == new_lon

\* Line 93: new_lon = ((new_lon + 180) % 360) - 180; Python's % takes the
\* sign of the divisor, as TLA+'s does.
WrapLon(new_lon) == ((new_lon + Deg(180)) % Deg(360)) - Deg(180)

\* generate_random_coordinate(lat, lon, radius_m) with the two draws made
\* explicit: d = random.uniform(0, radius_m), theta = random.uniform(0, 2 pi).
\* The set of pairs <<new_lat, new_lon>> it can return.
generate_random_coordinate(lat, lon, d, k) ==
    { <<ClampLat(Degrees(p[1])), WrapLon(Degrees(p[2]))>> :
        p \in Projection(Radians(lat), Radians(lon), d, k) }

-----------------------------------------------------------------------------
(* The table and the form.                                                 *)

\* A text with spaces is the sequence of its space-separated words, and a
\* word is a sequence of atoms: "(", ")" or a run of other characters.
\* CLIMATE_ZONES (lines 29-60), the entries the model selects among.
ZoneCodes == <<"Af", "Cwb", "Cwc", "ET">>

CLIMATE_ZONES ==
    [c \in {ZoneCodes[i] : i \in 1..Len(ZoneCodes)} |->
        CASE c = "Af"  -> [name   |-> << <<"Tropical">>, <<"rainforest">> >>,
                           colour |-> <<"#","0","0","0","0","f","e">>]
          [] c = "Cwb" -> [name   |-> << <<"Subtropical">>, <<"highland">>,
                                         <<"(", "dry">>, <<"winter", ")">> >>,
                           colour |-> <<"#","6","4","c","8","6","5">>]
          [] c = "Cwc" -> [name   |-> << <<"Subtropical">>, <<"highland">>,
                                         <<"(", "cold", ")">> >>,
                           colour |-> <<"#","3","2","9","6","3","3">>]
          [] c = "ET"  -> [name   |-> << <<"Tundra">> >>,
                           colour |-> <<"#","b","2","b","2","b","2">>]]

\* f"{name} ({code})"
ZoneLabel(c) == CLIMATE_ZONES[c].name \o << <<"(", c, ")">> >>

\* Line 167: the options of the multiselect, in the table's order.
zone_labels == [i \in 1..Len(ZoneCodes) |-> ZoneLabel(ZoneCodes[i])]

\* word.strip("()")
RECURSIVE StripLeft(_)
StripLeft(w) ==
    IF w # <<>> /\ w[1] \in {"(", ")"} THEN StripLeft(Tail(w)) ELSE w

RECURSIVE StripRight(_)
StripRight(w) ==
    IF w # <<>> /\ w[Len(w)] \in {"(", ")"}
    THEN StripRight(SubSeq(w, 1, Len(w) - 1)) ELSE w

\* Line 169: opt.split()[-1].strip("()"); what is left is one atom.
CodeOf(opt) == StripRight(StripLeft(opt[Len(opt)]))[1]

\* Lines 169-173: the descriptor of one selected option, computed once for
\* each option of the multiselect.
ZoneOf ==
    [opt \in {zone_labels[i] : i \in 1..Len(zone_labels)} |->
        LET c == CodeOf(opt)
        IN  [code |-> c, text |-> ZoneLabel(c),
             colour |-> CLIMATE_ZONES[c].colour]]

\* Lines 169-173
ZonesOf(selected) == [i \in 1..Len(selected) |-> ZoneOf[selected[i]]]

Https == <<"h","t","t","p","s",":","/","/">>

Http == <<"h","t","t","p">>

\* Line 155
PeopleLink ==
    Https \o <<"a","c","t","i","o","n","r","e","s","e","a","r","c","h",
               "p","r","o","j","e","c","t","s",".","f","r","a","m","e","r",
               ".","w","e","b","s","i","t","e","/","p","e","o","p","l","e">>

\* Lines 146-155 keeping whatever was typed: entry['link'] = link_val.
LinkOfUnfiltered(type, link_val) ==
    IF type = "Project" THEN link_val ELSE PeopleLink

\* Lines 146-155
LinkOf(type, link_val) ==
    IF type = "Project"
    THEN (IF StartsWith(link_val, Https) THEN link_val ELSE <<>>)
    ELSE PeopleLink

\* Line 207
ImageOf(img_val) == IF StartsWith(img_val, Http) THEN img_val ELSE <<>>

\* Line 210
ColourOf(type) ==
    IF type = "Project" THEN <<"#","f","f","f","f","0","0">>
    ELSE <<"#","a","d","d","8","e","6">>

\* Lines 114-119.  valid_id is bound only when an id was typed, and both
\* branches bind it to False; nothing reads it afterwards.
ValidIdOf(id) ==
    IF id # <<>>
    THEN (IF ~IdMatch(id) THEN FALSE ELSE FALSE)
    ELSE "unbound"

\* Line 214
ValidLinkOf(type, link) ==
    \/ type = "Person"
    \/ StartsWith(link, Https)
    \/ link = <<>>

\* Line 215
ValidImageOf(image) == image = <<>> \/ StartsWith(image, Http)

\* Line 216: all([...]) over the truth values of id, title, zones, the
\* mask choice, valid_link and valid_image.
MandatoryOf(e, mask_choice, vlink, vimage) ==
    /\ e.id # <<>>
    /\ e.title # <<>>
    /\ e.zones # <<>>
    /\ mask_choice \in {"Yes", "No"}
    /\ vlink
    /\ vimage

\* What one run of main() writes to the page.
ShownOf(id, e, vlink, vimage, mand) ==
    (IF id # <<>> /\ ~IdMatch(id) THEN {"id_error"} ELSE {})
    \cup (IF ~vlink THEN {"link_error"} ELSE {})
    \cup (IF e.imageUrl # <<>> /\ ~vimage THEN {"image_error"} ELSE {})
    \cup (IF mand THEN {"json"} ELSE {"info"})

\* Line 195: st.slider("", 2, 10, 5, ...)
SliderMin == 2

SliderMax == 10

SliderDefault == 5

NoCall == [made |-> FALSE]

\* Line 79: d = random.uniform(0, radius_m), a value of [0, radius_m]; the
\* model draws among DrawSteps + 1 evenly spaced values, both ends included.
DrawSteps == 1

\* Line 79 drawing up to the diameter: random.uniform(0, 2 * radius_m).
DrawsDiameter(radius_m) ==
    { (2 * radius_m * i) \div DrawSteps : i \in 0..DrawSteps }

Draws(radius_m) == { (radius_m * i) \div DrawSteps : i \in 0..DrawSteps }

\* Line 80: theta = random.uniform(0, 2 * math.pi); the model draws among
\* the four bearings k * pi / 2.
Bearings == 0..3

\* One call generate_random_coordinate(lat, lon, radius_m) seen from
\* inside: its arguments, its two draws and a result it can return.  The
\* function tests none of its arguments and raises nothing for them.
Executions(lat, lon, radius_m) ==
    UNION { { [made |-> TRUE, raised |-> FALSE, lat |-> lat, lon |-> lon,
               radius_m |-> radius_m, d |-> d, theta |-> k, out |-> m] :
              m \in generate_random_coordinate(lat, lon, d, k) } :
            d \in Draws(radius_m), k \in Bearings }

\* The same call as main() sees it: the arguments and the result.
MaskCalls(lat, lon, radius_m) ==
    { [made |-> TRUE, lat |-> lat, lon |-> lon, radius_m |-> radius_m,
       out |-> x.out] : x \in Executions(lat, lon, radius_m) }

\* The coordinates and the radius the user enters in the form.
\* Lines 183 and 185: number_input keeps the value within its bounds.
LatSamples == { Deg(0 - 90), 0 }

LonSamples == { Deg(0 - 180), Deg(180) }

RadiusSamples == { SliderMin, SliderDefault, SliderMax }

\* Line 196: generate_random_coordinate(lat, lon, radius_m=radius_km * 1000),
\* computed once for each input of the form.
FormCalls ==
    [lat \in LatSamples, lon \in LonSamples, radius_km \in RadiusSamples |->
        MaskCalls(lat, lon, radius_km * 1000)]

\* Lines 192-199 with line 199 keeping the slider's last value:
\* entry.update(latitude=lat, longitude=lon, radiusKm=radius_km, mask=False).
MaskOutcomesStaleRadius(lat, lon, mask_choice, radius_km) ==
    IF mask_choice = "Yes"
    THEN { [latitude |-> c.out[1], longitude |-> c.out[2],
            radiusKm |-> radius_km, mask |-> TRUE, call |-> c] :
           c \in FormCalls[lat, lon, radius_km] }
    ELSE { [latitude |-> lat, longitude |-> lon, radiusKm |-> radius_km,
            mask |-> FALSE, call |-> NoCall] }

\* Lines 192-199: the coordinates, radius and flag of the entry, with the
\* call to generate_random_coordinate that produced them.
MaskOutcomes(lat, lon, mask_choice, radius_km) ==
    IF mask_choice = "Yes"
    THEN { [latitude |-> c.out[1], longitude |-> c.out[2],
            radiusKm |-> radius_km, mask |-> TRUE, call |-> c] :
           c \in FormCalls[lat, lon, radius_km] }
    ELSE { [latitude |-> lat, longitude |-> lon, radiusKm |-> 0,
            mask |-> FALSE, call |-> NoCall] }

\* Lines 104-210: the entry dictionary, mo being what lines 192-199 put
\* in it.
EntryOf(id, type, title, link_val, address, selected, img_val, mo) ==
    [id |-> id, type |-> type, title |-> title,
     link |-> LinkOf(type, link_val), address |-> address,
     zones |-> ZonesOf(selected),
     latitude |-> mo.latitude, longitude |-> mo.longitude,
     radiusKm |-> mo.radiusKm, mask |-> mo.mask,
     imageUrl |-> ImageOf(img_val), colour |-> ColourOf(type)]

\* The values main() reads from the widgets.
Inputs ==
    [id |-> id_input, type |-> listing_type, title |-> title_input,
     link |-> link_input, address |-> address_input, zones |-> zones_select,
     lat |-> lat_input, lon |-> lon_input, mask |-> mask_radio,
     radius |-> mask_radius, image |-> image_input]

\* main(), lines 97-228: what one run computes from the widgets' values w
\* and leaves on the page (the other arguments).
Main(w, e, vid, vlink, vimage, mand, sh, c) ==
    \E mo \in MaskOutcomes(w.lat, w.lon, w.mask, w.radius) :
        /\ e = EntryOf(w.id, w.type, w.title, w.link, w.address, w.zones,
                       w.image, mo)
        /\ vid = ValidIdOf(w.id)
        /\ vlink = ValidLinkOf(w.type, e.link)
        /\ vimage = ValidImageOf(e.imageUrl)
        /\ mand = MandatoryOf(e, w.mask, vlink, vimage)
        /\ sh = ShownOf(w.id, e, vlink, vimage, mand)
        /\ c = mo.call

\* The page shows what a run of main() on the widgets' new values computed.
Rerun ==
    Main(Inputs', entry', valid_id', valid_link', valid_image', mandatory',
         shown', call')

-----------------------------------------------------------------------------
(* The values the user enters.                                             *)

IdSamples == { <<>>, <<"h","-","5","_","1">>, <<"H"," ","5">> }

TitleSamples == { <<>>, <<"H","o","u","s","e"," ","5">> }

LinkSamples ==
    { <<>>,
      Https,
      <<"h","t","t","p",":","/","/","a",".","i","o">> }

ImageSamples ==
    { <<>>,
      <<"h","t","t","p","s",":","/","/","a",".","i","o","/","i">>,
      <<"f","t","p",":","/","/","a",".","i","o","/","i">> }

\* How many options the user selects at most in the model; the multiselect
\* of line 168 sets no limit.
MaxSelected == 4

Selected(label) == \E i \in 1..Len(zones_select) : zones_select[i] = label

-----------------------------------------------------------------------------
(* The form: the first run, and one action for each widget.                *)

\* The widgets' defaults and the first run of main().
FormInit ==
    /\ id_input = <<>>
    /\ listing_type = "Project"
    /\ title_input = <<>>
    /\ link_input = <<>>
    /\ address_input = <<>>
    /\ zones_select = <<>>
    /\ lat_input = Deg(0 - 90)
    /\ lon_input = Deg(0 - 180)
    /\ mask_radio = "Yes"
    /\ mask_radius = SliderDefault
    /\ image_input = <<>>
    /\ Main(Inputs, entry, valid_id, valid_link, valid_image, mandatory,
            shown, call)

Init ==
    /\ FormInit
    /\ probe = [made |-> FALSE]
    /\ hex_text = <<>>
    /\ hex_ok = FALSE

SetId ==
    /\ \E v \in IdSamples \ {id_input} : id_input' = v
    /\ UNCHANGED << listing_type, title_input, link_input, address_input,
                    zones_select, lat_input, lon_input, mask_radio,
                    mask_radius, image_input, others >>
    /\ Rerun

\* The link input exists only for a Project (line 146): a widget that a run
\* does not create loses its value.
SetListingType ==
    /\ \E v \in {"Project", "Person"} \ {listing_type} : listing_type' = v
    /\ link_input' = IF listing_type' = "Project" THEN link_input ELSE <<>>
    /\ UNCHANGED << id_input, title_input, address_input, zones_select,
                    lat_input, lon_input, mask_radio, mask_radius,
                    image_input, others >>
    /\ Rerun

SetTitle ==
    /\ \E v \in TitleSamples \ {title_input} : title_input' = v
    /\ UNCHANGED << id_input, listing_type, link_input, address_input,
                    zones_select, lat_input, lon_input, mask_radio,
                    mask_radius, image_input, others >>
    /\ Rerun

SetLink ==
    /\ listing_type = "Project"
    /\ \E v \in LinkSamples \ {link_input} : link_input' = v
    /\ UNCHANGED << id_input, listing_type, title_input, address_input,
                    zones_select, lat_input, lon_input, mask_radio,
                    mask_radius, image_input, others >>
    /\ Rerun

\* The user picks the options in the order of the list,
SelectZone ==
    /\ Len(zones_select) < MaxSelected
    /\ \E i \in 1..Len(zone_labels) :
        /\ ~Selected(zone_labels[i])
        /\ \A j \in 1..(i - 1) : Selected(zone_labels[j])
        /\ zones_select' = Append(zones_select, zone_labels[i])
    /\ UNCHANGED << id_input, listing_type, title_input, link_input,
                    address_input, lat_input, lon_input, mask_radio,
                    mask_radius, image_input, others >>
    /\ Rerun

\* and removes the one picked last.
DeselectZone ==
    /\ zones_select # <<>>
    /\ zones_select' = SubSeq(zones_select, 1, Len(zones_select) - 1)
    /\ UNCHANGED << id_input, listing_type, title_input, link_input,
                    address_input, lat_input, lon_input, mask_radio,
                    mask_radius, image_input, others >>
    /\ Rerun

SetLat ==
    /\ \E v \in LatSamples \ {lat_input} : lat_input' = v
    /\ UNCHANGED << id_input, listing_type, title_input, link_input,
                    address_input, zones_select, lon_input, mask_radio,
                    mask_radius, image_input, others >>
    /\ Rerun

SetLon ==
    /\ \E v \in LonSamples \ {lon_input} : lon_input' = v
    /\ UNCHANGED << id_input, listing_type, title_input, link_input,
                    address_input, zones_select, lat_input, mask_radio,
                    mask_radius, image_input, others >>
    /\ Rerun

\* The slider exists only when the choice is "Yes" (line 193): otherwise it
\* loses its value and starts again from its default.
SetMaskRadio ==
    /\ \E v \in {"Yes", "No"} \ {mask_radio} : mask_radio' = v
    /\ mask_radius' = IF mask_radio' = "Yes" THEN mask_radius ELSE SliderDefault
    /\ UNCHANGED << id_input, listing_type, title_input, link_input,
                    address_input, zones_select, lat_input, lon_input,
                    image_input, others >>
    /\ Rerun

SetMaskRadius ==
    /\ mask_radio = "Yes"
    /\ \E v \in RadiusSamples \ {mask_radius} : mask_radius' = v
    /\ UNCHANGED << id_input, listing_type, title_input, link_input,
                    address_input, zones_select, lat_input, lon_input,
                    mask_radio, image_input, others >>
    /\ Rerun

SetImage ==
    /\ \E v \in ImageSamples \ {image_input} : image_input' = v
    /\ UNCHANGED << id_input, listing_type, title_input, link_input,
                    address_input, zones_select, lat_input, lon_input,
                    mask_radio, mask_radius, others >>
    /\ Rerun

\* A rerun without a change of a widget (the page's Rerun command) draws
\* again.
RerunPage ==
    /\ UNCHANGED << widgets, others >>
    /\ Rerun

Next ==
    \/ SetId
    \/ SetListingType
    \/ SetTitle
    \/ SetLink
    \/ SelectZone
    \/ DeselectZone
    \/ SetLat
    \/ SetLon
    \/ SetMaskRadio
    \/ SetMaskRadius
    \/ SetImage
    \/ RerunPage

Spec == Init /\ [][Next]_vars

-----------------------------------------------------------------------------
(* generate_random_coordinate on its own: the arguments are drawn first,    *)
(* then the function is applied once.                                      *)

\* The first run of the form with d = 0 and the longitude left as entered.
FormStart ==
    /\ FormInit
    /\ call.out = <<Deg(0 - 90), Deg(0 - 180)>>

\* Latitudes: the poles, 0.001 and 0.05 degree from a pole, the equator,
\* London, and 1 and 5 degrees beyond the poles.
MaskLats ==
    { Deg(0 - 90), 100 - Deg(90), 5000 - Deg(90), 0, 5150740,
      Deg(90) - 5000, Deg(90) - 100, Deg(90), Deg(0 - 91), Deg(91), Deg(95) }

MaskLons ==
    { Deg(0 - 180), 0 - 12780, 0, Deg(180) - 1000, Deg(180),
      Deg(0 - 181), Deg(181) }

\* radius_m: the default, the slider's values, and one metre.
MaskRadii ==
    { 1, 5000 } \cup { km * 1000 : km \in SliderMin..SliderMax }

InitMask ==
    /\ FormStart
    /\ \E lat \in MaskLats, lon \in MaskLons, radius_m \in MaskRadii :
        probe = [made |-> FALSE, lat |-> lat, lon |-> lon,
                 radius_m |-> radius_m]
    /\ hex_text = <<>>
    /\ hex_ok = FALSE

MaskCall ==
    /\ ~probe.made
    /\ probe' \in Executions(probe.lat, probe.lon, probe.radius_m)
    /\ UNCHANGED << widgets, formvars, hex_text, hex_ok >>

NextMask == MaskCall

SpecMask == InitMask /\ [][NextMask]_vars

-----------------------------------------------------------------------------
(* HEX_COLOR_RE on its own: a text typed one character at a time.          *)

HexAlphabet == {"#", "a", "F", "g", "\n"}

MaxHexLen == 9

InitHex ==
    /\ FormStart
    /\ probe = [made |-> FALSE]
    /\ hex_text = <<>>
    /\ hex_ok = HexColorMatch(hex_text)

TypeHex ==
    /\ Len(hex_text) < MaxHexLen
    /\ \E c \in HexAlphabet : hex_text' = Append(hex_text, c)
    /\ hex_ok' = HexColorMatch(hex_text')
    /\ UNCHANGED << widgets, formvars, probe >>

NextHex == TypeHex

SpecHex == InitHex /\ [][NextHex]_vars

-----------------------------------------------------------------------------
(* Properties.                                                             *)

InRange(lat, lon) ==
    /\ Deg(0 - 90) <= lat /\ lat <= Deg(90)
    /\ Deg(0 - 180) <= lon /\ lon <= Deg(180)

\* The JSON record is on the page.
Emitted == "json" \in shown

\* The probed call was made with arguments of the function's domain.
ValidCall ==
    /\ probe.made
    /\ InRange(probe.lat, probe.lon)
    /\ probe.radius_m > 0

\* C1: for every latitude in [-90, 90], longitude in [-180, 180] and
\* radius_m > 0, and every drawn distance and bearing,
\* generate_random_coordinate returns a latitude in [-90, 90] and a
\* longitude in [-180, 180].
C1_OutputInRange ==
    ValidCall => InRange(probe.out[1], probe.out[2])

\* A call from longitude 180 on the equator, due east: the projected
\* longitude passes 180 and comes back wrapped.
C1_Witness ==
    /\ ValidCall
    /\ probe.lat = 0 /\ probe.lon = Deg(180)
    /\ probe.theta = 1 /\ probe.d > 0
    /\ probe.out[2] < 0

\* [a-z0-9_-]+ and nothing else.
WellFormedId(id) == Len(id) >= 1 /\ AllIn(id, IdChars)

\* C2: whenever main emits the JSON record, its id is non-empty and made
\* only of lowercase letters, digits, hyphen and underscore.
C2_EmittedIdWellFormed ==
    Emitted => WellFormedId(entry.id)

\* C3: the JSON is emitted only when every mandatory field is present and
\* between one and three climate zones are selected.
C3_EmittedZonesOneToThree ==
    Emitted =>
        /\ entry.id # <<>>
        /\ entry.title # <<>>
        /\ 1 <= Len(entry.zones) /\ Len(entry.zones) <= 3

\* C4: for a Project, the link of every emitted record is empty or a text
\* that is_valid_url accepts.
C4_EmittedLinkIsValidUrl ==
    (Emitted /\ entry.type = "Project") =>
        (entry.link = <<>> \/ is_valid_url(entry.link))

\* The shorter way round the circle between two longitudes, in 1e-5 degree.
LonGap(lon1, lon2) ==
    LET g == (lon2 - lon1) % Deg(360)
    IN  IF g <= Deg(180) THEN g ELSE Deg(360) - g

\* The great-circle distance in metres between two points that lie on one
\* great circle through the poles or on the equator; -1 for other pairs.
AlignedDistance(lat1, lon1, lat2, lon2) ==
    LET a   == Radians(lat1)
        b   == Radians(lat2)
        gap == LonGap(lon1, lon2)
    IN  IF Abs(a) = QuarterTurn \/ Abs(b) = QuarterTurn \/ gap = 0
        THEN Abs(a - b)
        ELSE IF gap = Deg(180)
        THEN (IF a + b >= 0 THEN HalfTurn - (a + b) ELSE HalfTurn + (a + b))
        ELSE IF a = 0 /\ b = 0
        THEN Radians(gap)
        ELSE 0 - 1

\* The calls whose result the model computes in closed form: along a
\* meridian, from the equator, from a pole, or with d = 0.
ClosedForm ==
    \/ probe.theta \in {0, 2}
    \/ probe.lat = 0
    \/ Abs(probe.lat) = Deg(90)
    \/ probe.d = 0

\* Rounding of the two unit conversions, in metres.
Tolerance == 2

C6_OutOfDomainRaises ==
    (probe.made /\ ~InRange(probe.lat, probe.lon)) => probe.raised

\* "#" followed by exactly 3 or exactly 6 hexadecimal digits, nothing else.
ExactHexColour(s) ==
    /\ Len(s) \in {4, 7}
    /\ s[1] = "#"
    /\ AllIn(Tail(s), HexDigit)

\* C7: HEX_COLOR_RE accepts a text if and only if it is "#" followed by
\* exactly 3 or exactly 6 hexadecimal digits and nothing else, and the
\* marker colour of the entry is such a text.
C7_HexExactlyThreeOrSix ==
    /\ hex_ok <=> ExactHexColour(hex_text)
    /\ ExactHexColour(entry.colour)

\* C9: declined, the entry holds the entered coordinates, radiusKm = 0 and
\* mask = false, and the function is not called; chosen, mask = true,
\* radiusKm is the slider's value in 2..10, the function is called with the
\* entered coordinates and radius_m = radiusKm * 1000 and the entry holds
\* its result.  So mask = true if and only if radiusKm > 0.
C9_MaskFieldsConsistent ==
    /\ mask_radio = "No" =>
        /\ entry.latitude = lat_input /\ entry.longitude = lon_input
        /\ entry.radiusKm = 0 /\ entry.mask = FALSE
        /\ ~call.made
    /\ mask_radio = "Yes" =>
        /\ entry.mask = TRUE
        /\ entry.radiusKm = mask_radius
        /\ entry.radiusKm \in SliderMin..SliderMax
        /\ call.made
        /\ call.lat = lat_input /\ call.lon = lon_input
        /\ call.radius_m = entry.radiusKm * 1000
        /\ entry.latitude = call.out[1] /\ entry.longitude = call.out[2]
    /\ entry.mask <=> entry.radiusKm > 0

\* An emitted record without masking, after the slider was moved and the
\* coordinates were entered.
C9_Witness ==
    /\ Emitted
    /\ mask_radio = "No"
    /\ lat_input = 0 /\ lon_input = Deg(180)
    /\ entry.radiusKm = 0

=============================================================================
